---- MODULE Spec2Model ----
(***************************************************************************)
(* Model of co2_env_chamber_6.py: the acquisition-control loop of the      *)
(* CozIR CO2 data logger.  One iteration of the `while True` loop reads a  *)
(* line from the serial port, parses it (extract_values), drives the CO2   *)
(* valve, appends the reading to the deque and to the CSV file and, once   *)
(* the deque holds plot_interval readings, redraws the plot.               *)
(*                                                                         *)
(* A line is a sequence of bytes; a byte is written as a one-character     *)
(* string (ASCII) or as "0xC3", "0xA9", "0xFF" (non-ASCII).  Python's None *)
(* is the empty sequence and a value v is <<v>>.  The floats a/10 are kept *)
(* as exact fractions <<numerator, denominator>> in lowest terms.          *)
(***************************************************************************)
EXTENDS Integers, Sequences, FiniteSets, TLC

\* ---------------------------------------------------------------- bounds
\* Number of loop iterations explored.
MaxReads == 66
\* Iterations at the start of a run whose line is the periodic sensor output
\* or any of Frames; later iterations read the periodic output or a malformed
\* line.
FreeReads == 1

\* ------------------------------------------------------ program constants
low == 420
high == 510
maxlen == 60
plot_interval == 10

None == <<>>
Some(v) == <<v>>

Min(a, b) == IF a < b THEN a ELSE b

\* ------------------------------------------------------------- characters
DigitChars == <<"0", "1", "2", "3", "4", "5", "6", "7", "8", "9">>

IsDigit(c) == \E d \in 1..10 : DigitChars[d] = c

\* \s of the re module, over the characters used here
IsSpace(c) == c \in {" ", "\t", "\r", "\n"}

DigitVal(c) == (CHOOSE d \in 1..10 : DigitChars[d] = c) - 1

\* int() of a string of decimal digits (leading zeros allowed)
RECURSIVE int(_)
int(s) ==
  IF Len(s) = 0 THEN 0
  ELSE 10 * int(SubSeq(s, 1, Len(s) - 1)) + DigitVal(s[Len(s)])

\* ------------------------------------------------- bytes.decode('utf-8')
Continuation(b) == b = "0xA9"
Lead2(b) == b = "0xC3"
NonAscii(b) == b \in {"0xC3", "0xA9", "0xFF"}

\* TRUE iff the byte sequence is valid UTF-8 from position i on
RECURSIVE Decodable(_, _)
Decodable(bs, i) ==
  IF i > Len(bs) THEN TRUE
  ELSE IF ~NonAscii(bs[i]) THEN Decodable(bs, i + 1)
  ELSE IF Lead2(bs[i]) /\ i < Len(bs) /\ Continuation(bs[i + 1])
       THEN Decodable(bs, i + 2)
  ELSE FALSE

\* The decoded text of a valid byte sequence: 0xC3 0xA9 is the single
\* character U+00E9, an ASCII byte is its character.
RECURSIVE decode(_, _)
decode(bs, i) ==
  IF i > Len(bs) THEN <<>>
  ELSE IF Lead2(bs[i]) THEN <<"U+00E9">> \o decode(bs, i + 2)
  ELSE <<bs[i]>> \o decode(bs, i + 1)

\* ------------------------------------ pattern  H\s*(\d+)\s*T\s*(\d+)\s*Z\s*(\d+)
\* First position >= i that does not hold a whitespace character (\s*).
RECURSIVE SkipSpaces(_, _)
SkipSpaces(s, i) ==
  IF i <= Len(s) /\ IsSpace(s[i]) THEN SkipSpaces(s, i + 1) ELSE i

\* First position >= i that does not hold a digit (greedy \d+ ends there).
RECURSIVE SkipDigits(_, _)
SkipDigits(s, i) ==
  IF i <= Len(s) /\ IsDigit(s[i]) THEN SkipDigits(s, i + 1) ELSE i

\* marker \s* (\d+) starting at position i: the match fails (ok = FALSE) or
\* yields the captured digits and the position after them.  Whitespace,
\* digits and markers are disjoint classes, so the greedy match is the only
\* one.
Group(s, i, marker) ==
  LET d == SkipSpaces(s, i + 1)
      e == SkipDigits(s, d)
  IN IF i <= Len(s) /\ s[i] = marker /\ e > d
     THEN [ok |-> TRUE, digits |-> SubSeq(s, d, e - 1), next |-> e]
     ELSE [ok |-> FALSE, digits |-> <<>>, next |-> i]

\* Variant: no \s* between a group and the next marker
MatchAt_NoSpaceBetween(s, i) ==
  LET g1 == Group(s, i, "H")
      g2 == Group(s, g1.next, "T")
      g3 == Group(s, g2.next, "Z")
  IN IF g1.ok /\ g2.ok /\ g3.ok
     THEN [ok |-> TRUE, group1 |-> g1.digits, group2 |-> g2.digits,
           group3 |-> g3.digits]
     ELSE [ok |-> FALSE, group1 |-> <<>>, group2 |-> <<>>, group3 |-> <<>>]

\* pattern.match anchored at position i
MatchAt(s, i) ==
  LET g1 == Group(s, i, "H")
      g2 == Group(s, SkipSpaces(s, g1.next), "T")
      g3 == Group(s, SkipSpaces(s, g2.next), "Z")
  IN IF g1.ok /\ g2.ok /\ g3.ok
     THEN [ok |-> TRUE, group1 |-> g1.digits, group2 |-> g2.digits,
           group3 |-> g3.digits]
     ELSE [ok |-> FALSE, group1 |-> <<>>, group2 |-> <<>>, group3 |-> <<>>]

\* pattern.search: the leftmost position with a match wins
search(s) ==
  IF \E i \in 1..Len(s) : MatchAt(s, i).ok
  THEN MatchAt(s, CHOOSE i \in 1..Len(s) :
                    /\ MatchAt(s, i).ok
                    /\ \A j \in 1..(i - 1) : ~MatchAt(s, j).ok)
  ELSE MatchAt(s, Len(s) + 1)

\* ------------------------------------------------------------- fractions
RECURSIVE GCD(_, _)
GCD(a, b) == IF b = 0 THEN a ELSE GCD(b, a % b)

Abs(n) == IF n < 0 THEN -n ELSE n

\* n / d as an exact fraction in lowest terms, d > 0
Div(n, d) ==
  LET g == GCD(Abs(n), d) IN <<n \div g, d \div g>>

\* ------------------------------------------------------ lines on the wire
\* n in decimal, zero-padded to w digits (the sensor prints 5 digits)
RECURSIVE Pad(_, _)
Pad(n, w) ==
  IF w = 0 THEN <<>> ELSE Pad(n \div 10, w - 1) \o <<DigitChars[(n % 10) + 1]>>

\* The line the CozIR sensor prints: " H 00450 T 01234 Z 00465\r\n"
SensorFrame(h, t, z) ==
  <<" ", "H", " ">> \o Pad(h, 5) \o <<" ", "T", " ">> \o Pad(t, 5)
    \o <<" ", "Z", " ">> \o Pad(z, 5) \o <<"\r", "\n">>

\* n in decimal without padding
RECURSIVE Digits(_)
Digits(n) ==
  IF n < 10 THEN <<DigitChars[n + 1]>>
  ELSE Digits(n \div 10) \o <<DigitChars[(n % 10) + 1]>>

\* The line "H<a> T<b> Z<c>"
CompactFrame(a, b, c) ==
  <<"H">> \o Digits(a) \o <<" ", "T">> \o Digits(b) \o <<" ", "Z">>
    \o Digits(c)

\* CO2 values the periodic sensor output cycles through
ZCycle == <<419, 420, 465, 509, 510, 600>>

\* The line the sensor prints in iteration i (i = 0, 1, ...) of a run
Periodic(i) ==
  SensorFrame(450 + (i % 3), 985 + 10 * (i % 4), ZCycle[(i % Len(ZCycle)) + 1])

\* Further lines the pattern matches
ValidFrames ==
         { SensorFrame(455, 1234, 421), SensorFrame(0, 0, 0),
           SensorFrame(1000, 1000, 511),
           CompactFrame(450, 985, 465),
           <<"x", "x", " ", "H", " ", "7", " ", "T", " ", "1", "0", "0", "1", " ", "Z", " ", "5", "0", "9", " ", "y", "y", "\n">>,
           <<"H", "1", "2", "H", "3", "T", "4", "Z", "5", "\n">>,
           <<"H", "1", "T", "2", "Z", "4", "2", "0", " ", "H", "4", "T", "5", "Z", "4", "6", "5", "\n">>,
           <<"0xC3", "0xA9">> \o <<"H", "\t", "2", "0", "\n", "T", " ", "1", "0", "1", "0", "\r", "Z", " ", " ", "5", "1", "0", "\n">> }

\* What readline returns when the 1 s timeout expires: nothing, or the part
\* of a line received so far (no line terminator)
TimeoutReads ==
  { <<>>, <<" ", "H", " ", "0", "0", "4">> }

\* Lines the pattern does not match, or that are not UTF-8
MalformedFrames ==
  TimeoutReads
    \cup { <<"g", "a", "r", "b", "a", "g", "e", "\n">>,
           <<" ", "H", " ", "0", "0", "4", "5", "0", " ", "T", " ", "0", "1", "2", "3", "4", "\r", "\n">>,
           <<" ", "Z", " ", "0", "0", "4", "6", "5", " ", "T", " ", "0", "1", "2", "3", "4", " ", "H", " ", "0", "0", "4", "5", "0", "\r", "\n">>,
           <<"H", "4", "5", "0", ",", "T", "1", "2", "3", "4", ",", "Z", "4", "6", "5", "\n">>,
           <<"H", " ", "T", " ", "1", "2", "3", "4", " ", "Z", " ", "4", "6", "5", "\n">>,
           <<"0xFF">> \o SensorFrame(450, 1234, 465),
           <<"H", "1", "T", "2", "Z", "3", "0xC3">>,
           <<"0xA9", "\n">> }

Frames == ValidFrames \cup MalformedFrames

\* --------------------------------------------------------- extract_values
\* Variant: the temperature count is scaled without the offset of 1000
extract_values_NoOffset(data_str, now) ==
  IF ~Decodable(data_str, 1)
  THEN [raises |-> "UnicodeDecodeError", ret |-> <<None, None, None, None>>]
  ELSE LET match == search(decode(data_str, 1))
       IN IF match.ok
          THEN [raises |-> "none",
                ret |-> << Some(now),
                           Some(Div(int(match.group1), 10)),
                           Some(Div(int(match.group2), 10)),
                           Some(int(match.group3)) >>]
          ELSE [raises |-> "none", ret |-> <<None, None, None, None>>]

\* What extract_values(data_str) does when datetime.now() is `now`: it
\* raises (decode of invalid UTF-8) or returns the 4-tuple
\* (current_dtime, h_value, t_value, z_value), all None without a match.
extract_values(data_str, now) ==
  IF ~Decodable(data_str, 1)
  THEN [raises |-> "UnicodeDecodeError", ret |-> <<None, None, None, None>>]
  ELSE LET match == search(decode(data_str, 1))
       IN IF match.ok
          THEN [raises |-> "none",
                ret |-> << Some(now),
                           Some(Div(int(match.group1), 10)),
                           Some(Div(int(match.group2) - 1000, 10)),
                           Some(int(match.group3)) >>]
          ELSE [raises |-> "none", ret |-> <<None, None, None, None>>]

\* The reading a successful return carries
Reading(ret) ==
  [timestamp |-> ret[1][1], humidity |-> ret[2][1],
   temperature |-> ret[3][1], co2 |-> ret[4][1]]

\* ------------------------------------------------------------ valve, deque
Off == FALSE
On == TRUE

\* Variant: band closed at its lower end
Decide_ClosedLow(z) == IF low <= z /\ z < high THEN FALSE ELSE TRUE

\* The level written to the valve pin for a CO2 value (lines 133-138)
Decide(z) == IF low < z /\ z < high THEN Off ELSE On

\* Variant: a full deque drops the new element instead of the oldest
DequeAppend_DropNew(d, x) ==
  IF Len(d) = maxlen THEN d ELSE Append(d, x)

\* Variant: a list, which never evicts
DequeAppend_NoEvict(d, x) == Append(d, x)

\* deque(maxlen=60).append
DequeAppend(d, x) ==
  IF Len(d) = maxlen THEN Append(Tail(d), x) ELSE Append(d, x)

\* Variant: temperature written before humidity
Row_Swapped(dtime, h, t, z) == <<dtime, t, h, z>>

\* The row csv.writer writes for a reading
Row(dtime, h, t, z) == <<dtime, h, t, z>>

\* ------------------------------------------------------------------ state
VARIABLES
  pc,             \* statement the loop is at: "read", "control", "record",
                  \* "write", "plot"
  exception,      \* "none" while running, else the exception that ended the run
  serial_open,    \* the serial port opened at line 31 has not been closed
  clock,          \* wall clock, one tick per readline
  sensor_data,    \* the line last returned by readline
  current_dtime,  \* the four names bound by line 130 (None before)
  h_value,
  t_value,
  z_value,
  valve,          \* level of the GPIO pin of the CO2 valve (pin 31)
  gpio_writes,    \* levels written by GPIO.output, in order
  data,           \* the deque
  csv_rows,       \* rows written to the CSV file by this run, in order
  plotted,        \* the data drawn on the axes by the last plot_trends
  render_at,      \* per plot_trends call, the number of readings parsed so far
  parsed          \* the readings returned by extract_values, in order

vars == << pc, exception, serial_open, clock, sensor_data, current_dtime, h_value, t_value,
           z_value, valve, gpio_writes, data, csv_rows, plotted, render_at,
           parsed >>

window == << data, csv_rows, plotted, render_at >>
actuator == << valve, gpio_writes >>
locals == << sensor_data, current_dtime, h_value, t_value, z_value >>

Init ==
  /\ pc = "read"
  /\ exception = "none"
  /\ serial_open = TRUE
  /\ clock = 0
  /\ sensor_data = <<>>
  /\ current_dtime = None
  /\ h_value = None
  /\ t_value = None
  /\ z_value = None
  /\ valve = Off
  /\ gpio_writes = <<>>
  /\ data = <<>>
  /\ csv_rows = <<>>
  /\ plotted = <<>>
  /\ render_at = <<>>
  /\ parsed = <<>>

\* Lines readline can return in iteration i
Lines(i) ==
  {Periodic(i)} \cup (IF i < FreeReads THEN Frames ELSE MalformedFrames)

\* Variant: the interrupt is swallowed and the loop keeps reading
ReadLine_IgnoresShutdown ==
  /\ pc = "read"
  /\ exception \in {"none", "KeyboardInterrupt"}
  /\ clock < MaxReads
  /\ \E line \in Lines(clock) :
       LET r == extract_values(line, clock + 1)
       IN /\ sensor_data' = line
          /\ clock' = clock + 1
          /\ IF r.raises # "none"
             THEN /\ exception' = r.raises
                  /\ UNCHANGED << pc, current_dtime, h_value, t_value, z_value,
                                  parsed >>
             ELSE /\ current_dtime' = r.ret[1]
                  /\ h_value' = r.ret[2]
                  /\ t_value' = r.ret[3]
                  /\ z_value' = r.ret[4]
                  /\ parsed' = IF r.ret[1] # None
                               THEN Append(parsed, Reading(r.ret))
                               ELSE parsed
                  /\ pc' = "control"
                  /\ UNCHANGED exception
  /\ UNCHANGED << serial_open, actuator, window >>

\* Lines 129-130: readline, then extract_values and the tuple assignment.
ReadLine ==
  /\ pc = "read"
  /\ exception = "none"
  /\ clock < MaxReads
  /\ \E line \in Lines(clock) :
       LET r == extract_values(line, clock + 1)
       IN /\ sensor_data' = line
          /\ clock' = clock + 1
          /\ IF r.raises # "none"
             THEN /\ exception' = r.raises
                  /\ UNCHANGED << pc, current_dtime, h_value, t_value, z_value,
                                  parsed >>
             ELSE /\ current_dtime' = r.ret[1]
                  /\ h_value' = r.ret[2]
                  /\ t_value' = r.ret[3]
                  /\ z_value' = r.ret[4]
                  /\ parsed' = IF r.ret[1] # None
                               THEN Append(parsed, Reading(r.ret))
                               ELSE parsed
                  /\ pc' = "control"
                  /\ UNCHANGED exception
  /\ UNCHANGED << serial_open, actuator, window >>

\* Variant: None orders below every integer (Python 2), so a failed parse
\* takes the else branch and opens the valve.
ValveControl_NoneIsLow ==
  /\ pc = "control"
  /\ exception = "none"
  /\ valve' = IF z_value = None THEN On ELSE Decide(z_value[1])
  /\ gpio_writes' = Append(gpio_writes, valve')
  /\ pc' = "record"
  /\ UNCHANGED << exception, serial_open, clock, locals, window, parsed >>

\* Variant: a controller with memory, which keeps the valve open until the
\* CO2 value is well inside the band
ValveControl_Sticky ==
  /\ pc = "control"
  /\ exception = "none"
  /\ IF z_value = None
     THEN /\ exception' = "TypeError"
          /\ UNCHANGED << pc, actuator >>
     ELSE /\ valve' = IF valve = On /\ z_value[1] < low + 50
                      THEN On
                      ELSE Decide(z_value[1])
          /\ gpio_writes' = Append(gpio_writes, valve')
          /\ pc' = "record"
          /\ UNCHANGED exception
  /\ UNCHANGED << serial_open, clock, locals, window, parsed >>

\* Variant: the pin is written only when its level changes
ValveControl_OnChange ==
  /\ pc = "control"
  /\ exception = "none"
  /\ IF z_value = None
     THEN /\ exception' = "TypeError"
          /\ UNCHANGED << pc, actuator >>
     ELSE /\ valve' = Decide(z_value[1])
          /\ gpio_writes' = IF valve' # valve
                            THEN Append(gpio_writes, valve')
                            ELSE gpio_writes
          /\ pc' = "record"
          /\ UNCHANGED exception
  /\ UNCHANGED << serial_open, clock, locals, window, parsed >>

\* Lines 133-138: `420 < z_value < 510` raises TypeError when z_value is
\* None; otherwise the valve pin is written.
ValveControl ==
  /\ pc = "control"
  /\ exception = "none"
  /\ IF z_value = None
     THEN /\ exception' = "TypeError"
          /\ UNCHANGED << pc, actuator >>
     ELSE /\ valve' = Decide(z_value[1])
          /\ gpio_writes' = Append(gpio_writes, Decide(z_value[1]))
          /\ pc' = "record"
          /\ UNCHANGED exception
  /\ UNCHANGED << serial_open, clock, locals, window, parsed >>

\* Variant: the row is written before the reading is appended to the deque
Record_LogFirst ==
  /\ pc = "record"
  /\ exception = "none"
  /\ IF current_dtime # None /\ h_value # None /\ t_value # None
        /\ z_value # None
     THEN /\ csv_rows' = Append(csv_rows, << current_dtime[1], h_value[1],
                                             t_value[1], z_value[1] >>)
          /\ pc' = "write"
     ELSE /\ pc' = "read"
          /\ UNCHANGED csv_rows
  /\ UNCHANGED << exception, serial_open, clock, locals, actuator, data,
                  plotted, render_at, parsed >>

\* Lines 140-142: the None test and the append to the deque.
Record ==
  /\ pc = "record"
  /\ exception = "none"
  /\ IF current_dtime # None /\ h_value # None /\ t_value # None
        /\ z_value # None
     THEN /\ data' = DequeAppend(data, << current_dtime[1], h_value[1],
                                          t_value[1], z_value[1] >>)
          /\ pc' = "write"
     ELSE /\ pc' = "read"
          /\ UNCHANGED data
  /\ UNCHANGED << exception, serial_open, clock, locals, actuator, csv_rows,
                  plotted, render_at, parsed >>

\* Lines 144-150: the file is opened for append and the row written; then
\* the length of the deque decides whether the plot is redrawn.
WriteRow ==
  /\ pc = "write"
  /\ exception = "none"
  /\ csv_rows' = Append(csv_rows, Row(current_dtime[1], h_value[1],
                                      t_value[1], z_value[1]))
  /\ pc' = IF Len(data) >= plot_interval THEN "plot" ELSE "read"
  /\ UNCHANGED << exception, serial_open, clock, locals, actuator, data,
                  plotted, render_at, parsed >>

\* Lines 145-147 when open() or the write fails (disk full, directory gone,
\* no permission): OSError is raised, nothing handles it, no row is written.
WriteRowFails ==
  /\ pc = "write"
  /\ exception = "none"
  /\ exception' = "OSError"
  /\ UNCHANGED << pc, serial_open, clock, locals, actuator, window, parsed >>

\* Variant: only the newest point is handed to the plot
Plot_NewPoint ==
  /\ pc = "plot"
  /\ exception = "none"
  /\ plotted' = << data[Len(data)] >>
  /\ render_at' = Append(render_at, Len(parsed))
  /\ pc' = "read"
  /\ UNCHANGED << exception, serial_open, clock, locals, actuator, data,
                  csv_rows, parsed >>

\* Line 151: plot_trends(data) draws the whole deque.
Plot ==
  /\ pc = "plot"
  /\ exception = "none"
  /\ plotted' = data
  /\ render_at' = Append(render_at, Len(parsed))
  /\ pc' = "read"
  /\ UNCHANGED << exception, serial_open, clock, locals, actuator, data,
                  csv_rows, parsed >>

\* The loop has no exit: a run ends by an exception, here the interrupt of
\* the process (KeyboardInterrupt), which can arrive at any statement.  No
\* handler runs: line 154 (serial_data.close()) follows `while True` and is
\* never reached, and the valve pin keeps its level.
Interrupt ==
  /\ exception = "none"
  /\ exception' = "KeyboardInterrupt"
  /\ UNCHANGED << pc, serial_open, clock, locals, actuator, window, parsed >>

Next ==
  ReadLine \/ ValveControl \/ Record \/ WriteRow \/ WriteRowFails \/ Plot
    \/ Interrupt

Spec == Init /\ [][Next]_vars

\* ------------------------------------------------------- shared notions
\* The line does not yield a reading: no match, or not UTF-8
Malformed(line) == extract_values(line, 0).ret[1] = None

\* The line decodes but the pattern does not match it
NoMatch(line) == Decodable(line, 1) /\ ~search(decode(line, 1)).ok

\* readline returned without a line terminator: its timeout expired
TimedOut(line) == Len(line) = 0 \/ line[Len(line)] # "\n"

\* The reading parsed in the current iteration has not yet been recorded
Pending == pc \in {"control", "record"} /\ z_value # None

\* The readings of the iterations that have got past the recording
Recorded ==
  IF Pending THEN SubSeq(parsed, 1, Len(parsed) - 1) ELSE parsed

\* The readings whose row has been written: the reading of the current
\* iteration is not among them until line 147 has run
Logged ==
  IF pc \in {"control", "record", "write"} /\ z_value # None
  THEN SubSeq(parsed, 1, Len(parsed) - 1)
  ELSE parsed

Tuple(r) == << r.timestamp, r.humidity, r.temperature, r.co2 >>

\* ------------------------------------------------------------------ claims
\* C1: a frame on which parsing fails (no H/T/Z match) never ends the loop:
\* the run is not stopped by the failure and the loop goes on to the next read.
C1_ParseFailureNotFatal ==
  (clock > 0 /\ NoMatch(sensor_data)) => exception # "TypeError"

\* C2: a read that timed out (empty or short line) is a non-fatal parse
\* failure; the loop does not stop on it.
C2_TimeoutNotFatal ==
  (clock > 0 /\ TimedOut(sensor_data) /\ NoMatch(sensor_data))
    => (exception # "TypeError" /\ (pc = "control" => z_value = None))

\* C3: extract_values never raises: for every byte sequence it returns a
\* reading or the failure value, also for bytes that are not UTF-8, and a
\* text lacking a marker yields the failure value.
C3_ParsingTotal ==
  /\ exception # "UnicodeDecodeError"
  /\ (pc = "control" /\ NoMatch(sensor_data))
       => (current_dtime = None /\ h_value = None /\ t_value = None
           /\ z_value = None)

\* C4: after a malformed line followed by a valid line, the window and the
\* log hold exactly the reading of the valid line: the malformed first line
\* leaves the loop running with window and log untouched, and the valid
\* second line is then recorded.
C4_MalformedThenValid ==
  /\ (clock = 1 /\ NoMatch(sensor_data) /\ ~TimedOut(sensor_data))
       => /\ exception # "TypeError"
          /\ data = <<>>
          /\ csv_rows = <<>>
  /\ (clock = 2 /\ pc = "read" /\ Len(parsed) = 1 /\ parsed[1].timestamp = 2)
       => /\ data = << Tuple(parsed[1]) >>
          /\ csv_rows = << Tuple(parsed[1]) >>

\* C5: every step of an iteration whose frame fails to parse leaves the
\* valve, the commands issued, the window and the log as they were.
C5_FailedParseNoEffect ==
  [][ (clock' > 0 /\ Malformed(sensor_data'))
        => UNCHANGED << valve, gpio_writes, data, csv_rows >> ]_vars

C5_Witness ==
  /\ exception = "TypeError"
  /\ Malformed(sensor_data)
  /\ Len(data) >= 2
  /\ valve = On

\* C6: the i-th command is Off iff 420 < co2 < 510 for the i-th reading, On
\* otherwise, in particular at 420 and at 510; Z = 419, 420, 465, 509, 510,
\* 600 give On, On, Off, Off, On, On; the pin holds the last command.
C6_BandDecision ==
  /\ Len(gpio_writes) <= Len(parsed)
  /\ \A i \in 1..Min(Len(gpio_writes), Len(parsed)) :
       LET z == parsed[i].co2
       IN /\ (gpio_writes[i] = Off) <=> (420 < z /\ z < 510)
          /\ (gpio_writes[i] = On) <=> (z <= 420 \/ z >= 510)
          /\ z \in {419, 420, 510, 600} => gpio_writes[i] = On
          /\ z \in {465, 509} => gpio_writes[i] = Off
  /\ Len(gpio_writes) > 0 => valve = gpio_writes[Len(gpio_writes)]

C6_Witness ==
  /\ Len(gpio_writes) = 6
  /\ [i \in 1..6 |-> parsed[i].co2] = <<419, 420, 465, 509, 510, 600>>
  /\ gpio_writes = <<On, On, Off, Off, On, On>>

\* C7: every reading parsed has got exactly one actuator command, but for
\* the one parsed in the current iteration whose command is about to be
\* issued; so the commands issued number the successful readings.
C7_OneCommandPerReading ==
  Len(gpio_writes) =
    Len(parsed) - (IF pc = "control" /\ z_value # None THEN 1 ELSE 0)

C7_Witness ==
  /\ pc = "read"
  /\ clock >= 12
  /\ Len(parsed) = clock
  /\ Len(gpio_writes) = Len(parsed)

\* C8: after n pushes the window holds min(n, 60) readings, never more than
\* 60, and they are the last min(n, 60) readings parsed, oldest first.
C8_SlidingWindow ==
  LET n == Len(Recorded)
      m == Min(n, 60)
  IN /\ Len(data) = m
     /\ Len(data) <= 60
     /\ \A i \in 1..Len(data) : data[i] = Tuple(Recorded[n - m + i])

C8_Witness ==
  /\ pc \in {"plot", "read"}
  /\ Len(parsed) = 65
  /\ Len(data) = 60
  /\ data[1] = Tuple(parsed[6])
  /\ data[60] = Tuple(parsed[65])

\* C9: the log holds one row per reading parsed (but the one of the current
\* iteration until its row is written), in arrival order, with the fields
\* timestamp, humidity, temperature, co2 in that order, and rows are only
\* ever appended.
C9_LogAppendOnly ==
  /\ [](/\ Len(csv_rows) = Len(Logged)
        /\ \A i \in 1..Len(csv_rows) :
             csv_rows[i] = << Logged[i].timestamp, Logged[i].humidity,
                              Logged[i].temperature, Logged[i].co2 >>)
  /\ [][ /\ Len(csv_rows') >= Len(csv_rows)
         /\ SubSeq(csv_rows', 1, Len(csv_rows)) = csv_rows ]_vars

C9_Witness ==
  /\ pc = "read"
  /\ Len(csv_rows) = 3
  /\ Len(parsed) = 3
  /\ csv_rows[3][2] # csv_rows[3][3]

\* C10: the renderer is invoked once every plot_interval (10) successful
\* readings: plot_interval readings lie between consecutive calls.
C10_RenderEveryInterval ==
  \A i \in 1..Len(render_at) :
    render_at[i] - (IF i = 1 THEN 0 ELSE render_at[i - 1]) = plot_interval

\* C11: every run that has stopped has closed the serial connection.
C11_StoppedRunClosesSerial ==
  exception # "none" => ~serial_open

\* C12: a failing persistence (or actuator) write does not stop acquisition:
\* the run is not ended by the write error.
C12_WriteFailureNotFatal ==
  (pc = "write" /\ z_value # None) => exception # "OSError"

\* The counts (a, b, c) of the frames "H<a> T<b> Z<c>" a run can read with
\* zero-padded digits, and with bare digits
PaddedCounts ==
  { << 450 + (i % 3), 985 + 10 * (i % 4), ZCycle[(i % Len(ZCycle)) + 1] >> :
      i \in 0..11 }
    \cup { <<455, 1234, 421>>, <<0, 0, 0>>, <<1000, 1000, 511>> }

BareCounts == { <<450, 985, 465>> }

\* The line just read is the frame of the counts k
IsFrameOf(k) ==
  \/ k \in PaddedCounts /\ sensor_data = SensorFrame(k[1], k[2], k[3])
  \/ k \in BareCounts /\ sensor_data = CompactFrame(k[1], k[2], k[3])

\* The fraction f = <<numerator, denominator>> is n / 10 in lowest terms
IsTenth(f, n) ==
  /\ f[2] > 0
  /\ f[1] * 10 = n * f[2]
  /\ \A g \in 2..10 : ~(f[1] % g = 0 /\ f[2] % g = 0)

\* C13: a frame "H<a> T<b> Z<c>" (digits bare or zero-padded as the sensor
\* prints them) parses, with humidity a/10, temperature (b-1000)/10, which
\* is negative when b < 1000, and co2 = c.
C13_FrameValues ==
  \A k \in PaddedCounts \cup BareCounts :
    (clock > 0 /\ pc = "control" /\ IsFrameOf(k))
      => /\ current_dtime # None /\ h_value # None /\ t_value # None
         /\ z_value # None
         /\ IsTenth(h_value[1], k[1])
         /\ IsTenth(t_value[1], k[2] - 1000)
         /\ (k[2] < 1000 <=> t_value[1][1] < 0)
         /\ z_value[1] = k[3]

C13_Witness ==
  /\ pc = "control"
  /\ sensor_data = CompactFrame(450, 985, 465)
  /\ h_value = Some(<<45, 1>>)
  /\ t_value = Some(<<-3, 2>>)
  /\ z_value = Some(465)

\* The text as tokens: whitespace dropped, each maximal run of digits one
\* "num", every other character a token of its own
RECURSIVE Tokens(_, _)
Tokens(s, i) ==
  IF i > Len(s) THEN <<>>
  ELSE IF s[i] \in {" ", "\t", "\r", "\n"} THEN Tokens(s, i + 1)
  ELSE IF IsDigit(s[i]) THEN <<"num">> \o Tokens(s, SkipDigits(s, i))
  ELSE <<s[i]>> \o Tokens(s, i + 1)

\* A marker followed by its digits at token position p
GroupAt(t, p, marker) ==
  p >= 1 /\ p + 1 <= Len(t) /\ t[p] = marker /\ t[p + 1] = "num"

\* An H group, a T group and a Z group in this order, whatever lies between
GroupsInOrder(t) ==
  \E p1, p2, p3 \in 1..Len(t) :
    /\ p1 + 1 < p2 /\ p2 + 1 < p3
    /\ GroupAt(t, p1, "H") /\ GroupAt(t, p2, "T") /\ GroupAt(t, p3, "Z")

\* The three groups in this order with nothing but whitespace between them
GroupsAdjacent(t) ==
  \E p \in 1..Len(t) :
    GroupAt(t, p, "H") /\ GroupAt(t, p + 2, "T") /\ GroupAt(t, p + 4, "Z")

\* The text of the line just read (it was decodable: the loop is at line 133)
Text == decode(sensor_data, 1)

\* C14 as stated: a line with the three groups in order parses whatever
\* separates the groups.
C14_AnySeparator ==
  (clock > 0 /\ pc = "control" /\ GroupsInOrder(Tokens(Text, 1)))
    => z_value # None

\* C14 amended: a line parses exactly when it holds the three groups in
\* order with only whitespace (or nothing) between the digits of one group
\* and the marker of the next; any other character there prevents the match.
C14_WhitespaceSeparator ==
  (clock > 0 /\ pc = "control")
    => (z_value # None <=> GroupsAdjacent(Tokens(Text, 1)))

C14_Witness ==
  /\ pc = "control"
  /\ sensor_data = <<"0xC3", "0xA9", "H", "\t", "2", "0", "\n", "T", " ", "1",
                     "0", "1", "0", "\r", "Z", " ", " ", "5", "1", "0", "\n">>
  /\ z_value = Some(510)

\* Effects of the iteration that parsed the newest reading
Commanded == Len(gpio_writes) = Len(parsed)
Pushed == data # <<>> /\ data[Len(data)] = Tuple(parsed[Len(parsed)])
Persisted == Len(csv_rows) = Len(parsed)
Rendered == render_at # <<>> /\ render_at[Len(render_at)] = Len(parsed)

\* C15: in an iteration with a reading the command is issued first, then the
\* reading is pushed, then its row is written, then (if due) the plot is
\* drawn, and the loop is back at the read: at each statement exactly the
\* earlier effects have happened, and the statements follow in this order.
C15_EffectOrder ==
  /\ [](/\ (pc = "control" /\ z_value # None)
             => /\ Len(gpio_writes) = Len(parsed) - 1
                /\ ~Pushed /\ ~Persisted /\ ~Rendered
        /\ pc = "record"
             => Commanded /\ ~Pushed /\ ~Persisted /\ ~Rendered
        /\ pc = "write"
             => Commanded /\ Pushed /\ ~Persisted /\ ~Rendered
        /\ pc = "plot"
             => /\ Commanded /\ Pushed /\ Persisted /\ ~Rendered
                /\ Len(data) >= 10
        /\ (pc = "read" /\ Len(parsed) > 0)
             => /\ Commanded /\ Pushed /\ Persisted
                /\ Len(data) >= 10 => Rendered)
  /\ [][ pc' # pc =>
           << pc, pc' >> \in { <<"read", "control">>, <<"control", "record">>,
                               <<"record", "write">>, <<"write", "plot">>,
                               <<"write", "read">>, <<"plot", "read">> } ]_vars

C15_Witness ==
  /\ pc = "plot"
  /\ exception = "none"
  /\ Len(parsed) = 10
  /\ Commanded /\ Pushed /\ Persisted /\ ~Rendered

LastCommand ==
  IF gpio_writes = <<>> THEN Off ELSE gpio_writes[Len(gpio_writes)]

\* C17 as stated: after a shutdown request the valve output is Off.
C17_ShutdownValveOff ==
  exception = "KeyboardInterrupt" => valve = Off

\* C17 amended: after a shutdown request no further line is read, and the
\* valve is left at the level of the last command issued (Off if none).
C17_ShutdownKeepsValve ==
  /\ [](exception = "KeyboardInterrupt" => valve = LastCommand)
  /\ [][ exception = "KeyboardInterrupt"
           => /\ clock' = clock
              /\ sensor_data' = sensor_data
              /\ valve' = valve
              /\ gpio_writes' = gpio_writes ]_vars

C17_Witness ==
  /\ exception = "KeyboardInterrupt"
  /\ clock >= 2
  /\ valve = On
  /\ pc = "read"

\* C18: while the loop waits for a line the valve is at the level decided
\* for the co2 of the newest reading in the window alone, and Off when no
\* reading has succeeded yet.
C18_ValveFollowsNewest ==
  (pc = "read" /\ exception = "none")
    => /\ valve = IF data = <<>>
                  THEN FALSE
                  ELSE ~(420 < data[Len(data)][4] /\ data[Len(data)][4] < 510)
       /\ parsed = <<>> => (data = <<>> /\ valve = FALSE)

C18_Witness ==
  /\ pc = "read"
  /\ exception = "none"
  /\ Len(data) = 3
  /\ gpio_writes = <<On, On, Off>>
  /\ valve = Off

\* C19: while the loop waits for a line the window is the last min(n, 60)
\* rows of the log, in the same order, n being the number of rows written.
C19_WindowIsLogTail ==
  pc = "read"
    => LET n == Len(csv_rows)
           m == IF n < 60 THEN n ELSE 60
       IN data = SubSeq(csv_rows, n - m + 1, n)

C19_Witness ==
  /\ pc = "read"
  /\ Len(csv_rows) = 62
  /\ Len(data) = 60
  /\ data[1] = csv_rows[3]
  /\ data[60] = csv_rows[62]

====
